---- MODULE Spec2Model ----
(***************************************************************************)
(* Model of the detection -> redaction -> audit-trace pipeline:            *)
(*   inspector.py        DocumentInspector                                 *)
(*   phantom_redactor.py PhantomRedactor                                   *)
(*   archestra.py        ArchestraInterceptor                              *)
(* Strings are sequences of one-character strings, so that slicing,        *)
(* formatting and masking are computed and not assumed.                    *)
(***************************************************************************)
EXTENDS Integers, Sequences, FiniteSets, TLC

(* ------------------------------ bounds --------------------------------- *)
\* number of interceptions a behaviour may start
MaxCalls == 3
\* longest text handed to redact_text directly
MaxTextLen == 6
\* most findings detection reports for such a text
MaxFindings == 2

\* the caller threads
Threads == {1, 2}

(* --------------------------- Python helpers ---------------------------- *)
Min(a, b) == IF a < b THEN a ELSE b
Max(a, b) == IF a > b THEN a ELSE b

\* a slice index as Python normalises it: negative counts from the end,
\* and everything is clamped to 0..n
SliceIndex(i, n) == IF i < 0 THEN Max(n + i, 0) ELSE Min(i, n)

\* s[i:j]
PySlice(s, i, j) ==
    LET lo == SliceIndex(i, Len(s))
        hi == SliceIndex(j, Len(s))
    IN  IF lo >= hi THEN << >> ELSE SubSeq(s, lo + 1, hi)

\* s[i:]
PySliceFrom(s, i) == PySlice(s, i, Len(s))

\* s[:j]
PySliceTo(s, j) == PySlice(s, 0, j)

\* c * n for a one-character string c
Repeat(c, n) == [i \in 1..n |-> c]

None == [none |-> TRUE]

RECURSIVE SeqSum(_)
SeqSum(s) == IF s = << >> THEN 0 ELSE Head(s) + SeqSum(Tail(s))

(* ------------------------ str(int) and :04d ---------------------------- *)
DigitChar(d) == <<"0", "1", "2", "3", "4", "5", "6", "7", "8", "9">>[d + 1]

RECURSIVE IntToStr(_)
IntToStr(n) == IF n < 10 THEN <<DigitChar(n)>>
               ELSE IntToStr(n \div 10) \o <<DigitChar(n % 10)>>

\* mutant: the width is dropped from the format, f"{n}"
FormatWidth4_NoPadding(n) == IntToStr(n)

\* f"{n:04d}": the decimal digits, left-padded with zeros to width 4
FormatWidth4(n) ==
    LET ds == IntToStr(n)
    IN  IF Len(ds) >= 4 THEN ds ELSE Repeat("0", 4 - Len(ds)) \o ds

\* f"TRACE-{n:04d}"
TraceIdOf(n) == <<"T", "R", "A", "C", "E", "-">> \o FormatWidth4(n)

(* ------------------- inspector.py: DocumentInspector ------------------- *)
\* the pattern names, in the order the PATTERNS dict is iterated
PATTERNS == <<"credit_card", "ssn", "account_number", "routing_number",
              "email", "password", "api_key">>

PatternNames == {PATTERNS[i] : i \in 1..Len(PATTERNS)}

PatternIndex(k) == CHOOSE i \in 1..Len(PATTERNS) : PATTERNS[i] = k

_get_severity(pattern_type) ==
    IF pattern_type \in {"credit_card", "ssn", "password", "api_key"} THEN "HIGH"
    ELSE IF pattern_type \in {"account_number", "routing_number"} THEN "MEDIUM"
    ELSE "LOW"

\* the finding built for one match of pattern k at span [s, e) of text:
\* value is match.group(0), position is match.span()
Finding(k, text, s, e) ==
    [type |-> k, value |-> PySlice(text, s, e), position |-> <<s, e>>,
     severity |-> _get_severity(k)]

\* the document handed to the interceptor: a password line whose token has
\* the shape of an email address, so that two findings overlap
DocPassword == <<"p", "w", "d", ":", "a", "@", "b", ".", "c", "o">>
Documents == {DocPassword}

\* re.finditer(PATTERNS[k], text, re.IGNORECASE) on that document: the spans
\* of the matches, left to right (no pattern matches the empty text)
Matches(k, text) ==
    IF text = DocPassword /\ k = "email" THEN <<<<4, 10>>>>
    ELSE IF text = DocPassword /\ k = "password" THEN <<<<0, 10>>>>
    ELSE << >>

RECURSIVE InspectFrom(_, _)
InspectFrom(text, i) ==
    IF i > Len(PATTERNS) THEN << >>
    ELSE LET k == PATTERNS[i]
             ms == Matches(k, text)
         IN  [j \in 1..Len(ms) |-> Finding(k, text, ms[j][1], ms[j][2])]
             \o InspectFrom(text, i + 1)

inspect_text(text) == InspectFrom(text, 1)

\* what finditer guarantees of any text: every match is a non-empty span of
\* the text, patterns are tried in PATTERNS order, and the matches of one
\* pattern are left to right and do not overlap
IsDetection(text, fs) ==
    /\ \A i \in 1..Len(fs) :
          /\ fs[i].type \in PatternNames
          /\ 0 <= fs[i].position[1]
          /\ fs[i].position[1] < fs[i].position[2]
          /\ fs[i].position[2] <= Len(text)
          /\ fs[i] = Finding(fs[i].type, text, fs[i].position[1], fs[i].position[2])
    /\ \A i \in 1..(Len(fs) - 1) :
          \/ PatternIndex(fs[i].type) < PatternIndex(fs[i + 1].type)
          \/ /\ fs[i].type = fs[i + 1].type
             /\ fs[i].position[2] <= fs[i + 1].position[1]

(* ----------------- phantom_redactor.py: PhantomRedactor ---------------- *)
REDACTION_MARKERS(k) ==
    CASE k = "credit_card" ->
        <<"[", "R", "E", "D", "A", "C", "T", "E", "D", "-", "C", "R", "E", "D", "I", "T", "-", "C", "A", "R", "D", "]">>
      [] k = "ssn" ->
        <<"[", "R", "E", "D", "A", "C", "T", "E", "D", "-", "S", "S", "N", "]">>
      [] k = "account_number" ->
        <<"[", "R", "E", "D", "A", "C", "T", "E", "D", "-", "A", "C", "C", "O", "U", "N", "T", "]">>
      [] k = "routing_number" ->
        <<"[", "R", "E", "D", "A", "C", "T", "E", "D", "-", "R", "O", "U", "T", "I", "N", "G", "]">>
      [] k = "email" ->
        <<"[", "R", "E", "D", "A", "C", "T", "E", "D", "-", "E", "M", "A", "I", "L", "]">>
      [] k = "password" ->
        <<"[", "R", "E", "D", "A", "C", "T", "E", "D", "-", "P", "A", "S", "S", "W", "O", "R", "D", "]">>
      [] k = "api_key" ->
        <<"[", "R", "E", "D", "A", "C", "T", "E", "D", "-", "A", "P", "I", "-", "K", "E", "Y", "]">>

\* mutant: the table is looked up by a key it never holds, so the default
\* marker is returned for every kind
MarkerFor_Default(finding_type) ==
    <<"[", "R", "E", "D", "A", "C", "T", "E", "D", "]">>

\* REDACTION_MARKERS.get(finding_type, '[REDACTED]')
MarkerFor(finding_type) ==
    IF finding_type \in PatternNames THEN REDACTION_MARKERS(finding_type)
    ELSE <<"[", "R", "E", "D", "A", "C", "T", "E", "D", "]">>

\* sorted(findings, key=lambda x: x['position'][0], reverse=True): stable,
\* so findings with the same start keep their detection order
RECURSIVE InsertByStartDesc(_, _)
InsertByStartDesc(x, s) ==
    IF s = << >> THEN <<x>>
    ELSE IF Head(s).position[1] < x.position[1] THEN <<x>> \o s
    ELSE <<Head(s)>> \o InsertByStartDesc(x, Tail(s))

RECURSIVE SortFrom(_, _)
SortFrom(fs, acc) ==
    IF fs = << >> THEN acc
    ELSE SortFrom(Tail(fs), InsertByStartDesc(Head(fs), acc))

\* mutant: reverse=True is lost, the findings are taken by ascending start
SortByStartReverse_Ascending(findings) ==
    LET d == SortFrom(findings, << >>)
    IN  [i \in 1..Len(d) |-> d[Len(d) + 1 - i]]

\* mutant: the findings are keyed by their start before sorting, so of two
\* findings with the same start only the later one is kept
SortByStartReverse_KeyedByStart(findings) ==
    SortFrom(SelectSeq([i \in 1..Len(findings) |->
                           IF \E j \in (i + 1)..Len(findings) :
                                 findings[j].position[1] = findings[i].position[1]
                           THEN None ELSE findings[i]],
                       LAMBDA f : f # None),
             << >>)

SortByStartReverse(findings) == SortFrom(findings, << >>)

\* mutant: a value of 4 characters or fewer is replaced by four asterisks,
\* whatever its length
RedactedValue_FixedMask(original_value, finding_type, preserve_format) ==
    IF preserve_format
    THEN IF Len(original_value) > 4
         THEN PySliceTo(original_value, 2) \o Repeat("*", Len(original_value) - 2)
         ELSE Repeat("*", 4)
    ELSE MarkerFor(finding_type)

\* mutant: values of exactly 4 characters keep their first 2 as well (>= 4)
RedactedValue_FourVisible(original_value, finding_type, preserve_format) ==
    IF preserve_format
    THEN IF Len(original_value) >= 4
         THEN PySliceTo(original_value, 2) \o Repeat("*", Len(original_value) - 2)
         ELSE Repeat("*", Len(original_value))
    ELSE MarkerFor(finding_type)

\* the redacted value chosen for one finding
RedactedValue(original_value, finding_type, preserve_format) ==
    IF preserve_format
    THEN IF Len(original_value) > 4
         THEN PySliceTo(original_value, 2) \o Repeat("*", Len(original_value) - 2)
         ELSE Repeat("*", Len(original_value))
    ELSE MarkerFor(finding_type)

\* mutant: the text after the replacement is taken from start, not from end,
\* so the matched characters stay behind the redacted value
RedactOne_KeepsTail(st, finding, preserve_format) ==
    LET start == finding.position[1]
        end == finding.position[2]
        redacted_value == RedactedValue(finding.value, finding.type, preserve_format)
    IN  [redacted_text |-> PySliceTo(st.redacted_text, start) \o redacted_value
                           \o PySliceFrom(st.redacted_text, start),
         redaction_log |-> Append(st.redaction_log,
                              [type |-> finding.type,
                               original |-> finding.value,
                               redacted |-> redacted_value,
                               position |-> finding.position,
                               severity |-> finding.severity])]

\* one iteration of the loop: st is the pair of redacted_text and
\* redaction_log so far
RedactOne(st, finding, preserve_format) ==
    LET start == finding.position[1]
        end == finding.position[2]
        redacted_value == RedactedValue(finding.value, finding.type, preserve_format)
    IN  [redacted_text |-> PySliceTo(st.redacted_text, start) \o redacted_value
                           \o PySliceFrom(st.redacted_text, end),
         redaction_log |-> Append(st.redaction_log,
                              [type |-> finding.type,
                               original |-> finding.value,
                               redacted |-> redacted_value,
                               position |-> finding.position,
                               severity |-> finding.severity])]

RECURSIVE RedactLoop(_, _, _)
RedactLoop(st, fs, preserve_format) ==
    IF fs = << >> THEN st
    ELSE RedactLoop(RedactOne(st, Head(fs), preserve_format), Tail(fs), preserve_format)

\* redact_text after detection has produced findings
RedactFindings(text, findings, preserve_format) ==
    RedactLoop([redacted_text |-> text, redaction_log |-> << >>],
               SortByStartReverse(findings), preserve_format)

redact_text(text, preserve_format) ==
    RedactFindings(text, inspect_text(text), preserve_format)

\* the number of records of the log with that value in that field
CountField(log, field, value) ==
    Cardinality({i \in 1..Len(log) : log[i][field] = value})

\* mutant: a kind is marked as seen (= 1) instead of counted (+ 1)
_create_summary_TypeFlag(redaction_log) ==
    [total_redactions |-> Len(redaction_log),
     by_type |-> [k \in {redaction_log[i].type : i \in 1..Len(redaction_log)}
                    |-> 1],
     by_severity |-> [HIGH |-> CountField(redaction_log, "severity", "HIGH"),
                      MEDIUM |-> CountField(redaction_log, "severity", "MEDIUM"),
                      LOW |-> CountField(redaction_log, "severity", "LOW")]]

_create_summary(redaction_log) ==
    [total_redactions |-> Len(redaction_log),
     by_type |-> [k \in {redaction_log[i].type : i \in 1..Len(redaction_log)}
                    |-> CountField(redaction_log, "type", k)],
     by_severity |-> [HIGH |-> CountField(redaction_log, "severity", "HIGH"),
                      MEDIUM |-> CountField(redaction_log, "severity", "MEDIUM"),
                      LOW |-> CountField(redaction_log, "severity", "LOW")]]

\* mutant: the document is redacted with markers (preserve_format False)
redact_document_Markers(content) ==
    LET r == redact_text(content, FALSE)
    IN  [original |-> content,
         redacted |-> r.redacted_text,
         redaction_count |-> Len(r.redaction_log),
         redaction_log |-> r.redaction_log,
         summary |-> _create_summary(r.redaction_log)]

redact_document(content) ==
    LET r == redact_text(content, TRUE)
    IN  [original |-> content,
         redacted |-> r.redacted_text,
         redaction_count |-> Len(r.redaction_log),
         redaction_log |-> r.redaction_log,
         summary |-> _create_summary(r.redaction_log)]

(* ------------------ archestra.py: ArchestraInterceptor ----------------- *)
VARIABLES
    trace_log,              \* self.trace_log
    interception_count,     \* self.interception_count
    now,                    \* the last reading of time.time()
    pc,                     \* pc[t]: where thread t is in its call
    frame,                  \* frame[t]: the local variables of that call
    ret,                    \* what the step just taken returned to its caller
    interceptions_started,  \* calls of process_with_trace or of a wrapper so far
    redact_call             \* a direct call of redact_text: its locals and position

ivars == <<trace_log, interception_count, now, pc, frame, ret, interceptions_started>>

NoFrame == [idle |-> TRUE]
NoRet == [op |-> "none"]

\* the readings time.time() may give after the reading x. The clock is let
\* to advance where a trace is completed, the reading that decides a
\* duration; the other readings repeat the last one.
Times(x) == {x, x + 1}

\* dict.get(key, default)
DictGet(d, key, default) == IF key \in DOMAIN d THEN d[key] ELSE default

\* the index of the first trace with that id, 0 when there is none: the
\* "for trace in self.trace_log: if trace['trace_id'] == trace_id" scan
FirstIndex(log, trace_id) ==
    IF \E i \in 1..Len(log) : log[i].trace_id = trace_id
    THEN CHOOSE i \in 1..Len(log) :
            /\ log[i].trace_id = trace_id
            /\ \A j \in 1..(i - 1) : log[j].trace_id # trace_id
    ELSE 0

\* mutant: the history is assigned the new trace instead of having it appended
_start_trace_Replacing(count, log, tm) ==
    LET c == count + 1
        trace_id == TraceIdOf(c)
    IN  [interception_count |-> c,
         trace_id |-> trace_id,
         trace_log |-> <<[trace_id |-> trace_id,
                          start_time |-> tm,
                          events |-> << >>,
                          status |-> "in_progress"]>>]

\* the counter, the new id and the history after _start_trace at time tm
_start_trace(count, log, tm) ==
    LET c == count + 1
        trace_id == TraceIdOf(c)
    IN  [interception_count |-> c,
         trace_id |-> trace_id,
         trace_log |-> Append(log, [trace_id |-> trace_id,
                                    start_time |-> tm,
                                    events |-> << >>,
                                    status |-> "in_progress"])]

\* mutant: the id test of the scan is lost, so the first trace takes the event
_log_trace_NoIdTest(log, trace_id, event_type, description, data, tm) ==
    IF log = << >> THEN log
    ELSE [log EXCEPT ![1].events =
             Append(@, [type |-> event_type,
                        description |-> description,
                        data |-> data,
                        timestamp |-> tm])]

_log_trace(log, trace_id, event_type, description, data, tm) ==
    LET i == FirstIndex(log, trace_id)
    IN  IF i = 0 THEN log
        ELSE [log EXCEPT ![i].events =
                 Append(@, [type |-> event_type,
                            description |-> description,
                            data |-> data,
                            timestamp |-> tm])]

\* mutant: the duration is the end time, the start time is not subtracted
_complete_trace_NoSubtraction(log, trace_id, tm) ==
    LET i == FirstIndex(log, trace_id)
    IN  IF i = 0 THEN log
        ELSE [log EXCEPT ![i] =
                 [k \in (DOMAIN @) \cup {"status", "end_time", "duration"} |->
                     IF k = "status" THEN "completed"
                     ELSE IF k = "end_time" THEN tm
                     ELSE IF k = "duration" THEN tm
                     ELSE @[k]]]

_complete_trace(log, trace_id, tm) ==
    LET i == FirstIndex(log, trace_id)
    IN  IF i = 0 THEN log
        ELSE [log EXCEPT ![i] =
                 [k \in (DOMAIN @) \cup {"status", "end_time", "duration"} |->
                     IF k = "status" THEN "completed"
                     ELSE IF k = "end_time" THEN tm
                     ELSE IF k = "duration" THEN tm - @.start_time
                     ELSE @[k]]]

get_trace_history(log, limit) == PySliceFrom(log, 0 - limit)

\* mutant: after a scan without a match the loop variable is returned
get_trace_by_id_LoopVariable(log, trace_id) ==
    LET i == FirstIndex(log, trace_id)
    IN  IF i # 0 THEN log[i]
        ELSE IF log = << >> THEN None ELSE log[Len(log)]

get_trace_by_id(log, trace_id) ==
    LET i == FirstIndex(log, trace_id)
    IN  IF i = 0 THEN None ELSE log[i]

RECURSIVE GCD(_, _)
GCD(a, b) == IF b = 0 THEN a ELSE GCD(b, a % b)

\* the quotient n / d (d > 0) as a fraction in lowest terms
Ratio(n, d) == LET g == GCD(n, d) IN [num |-> n \div g, den |-> d \div g]

\* the 'redactions' a completed trace contributes to the statistics
TraceRedactions(trace) ==
    SeqSum([j \in 1..Len(trace.events) |->
               IF trace.events[j].type = "PHANTOM_REDACT"
               THEN DictGet(trace.events[j].data, "redactions", 0)
               ELSE 0])

get_statistics(log, count) ==
    LET total_redactions ==
            SeqSum([i \in 1..Len(log) |->
                       IF log[i].status = "completed"
                       THEN TraceRedactions(log[i]) ELSE 0])
        total_duration ==
            SeqSum([i \in 1..Len(log) |->
                       IF log[i].status = "completed"
                       THEN DictGet(log[i], "duration", 0) ELSE 0])
    IN  [total_interceptions |-> count,
         total_redactions |-> total_redactions,
         average_duration |-> IF log # << >> THEN Ratio(total_duration, Len(log))
                              ELSE Ratio(0, 1),
         traces_completed |->
             Cardinality({i \in 1..Len(log) : log[i].status = "completed"})]

\* content[:100] + '...' if len(content) > 100 else content
Preview(content) ==
    IF Len(content) > 100 THEN PySliceTo(content, 100) \o <<".", ".", ".">>
    ELSE content

Init ==
    /\ trace_log = << >>
    /\ interception_count = 0
    /\ now = 0
    /\ pc = [t \in Threads |-> "idle"]
    /\ frame = [t \in Threads |-> NoFrame]
    /\ ret = NoRet
    /\ interceptions_started = 0
    /\ redact_call = [pc |-> "idle"]

\* no call is under way: calls are made one after the other
AllIdle == \A t \in Threads : pc[t] = "idle"

\* a call may be made here by sequential code: between two interceptions,
\* or from inside the wrapped function of the one under way
SequentialPoint == \A t \in Threads : pc[t] \in {"idle", "wrap_func"}

(* ---------------------- process_with_trace(content) -------------------- *)
\* trace_id = self._start_trace()
PWT_Start(t, content) ==
    /\ AllIdle
    /\ interception_count < MaxCalls
    /\ LET s == _start_trace(interception_count, trace_log, now)
       IN  /\ interception_count' = s.interception_count
           /\ trace_log' = s.trace_log
           /\ frame' = [frame EXCEPT ![t] =
                           [trace_id |-> s.trace_id, content |-> content]]
    /\ pc' = [pc EXCEPT ![t] = "pwt_step1"]
    /\ interceptions_started' = interceptions_started + 1
    /\ ret' = NoRet
    /\ UNCHANGED now
    /\ UNCHANGED redact_call

\* Step 1: Agent reads
PWT_Step1(t) ==
    /\ pc[t] = "pwt_step1"
    /\ LET content == frame[t].content
           step1 == [step |-> 1,
                     name |-> "Agent Reads Document",
                     description |-> "Agent attempts to read the uploaded document",
                     status |-> "completed",
                     data |-> [content_preview |-> Preview(content),
                               length |-> Len(content)],
                     timestamp |-> now]
       IN  /\ trace_log' = _log_trace(trace_log, frame[t].trace_id, "AGENT_READ",
                                      step1.description, step1.data, now)
           /\ frame' = [frame EXCEPT ![t] = @ @@ [step1 |-> step1]]
    /\ pc' = [pc EXCEPT ![t] = "pwt_step2"]
    /\ ret' = NoRet
    /\ UNCHANGED <<interception_count, now, interceptions_started>>
    /\ UNCHANGED redact_call

\* Step 2: Archestra intercepts
PWT_Step2(t) ==
    /\ pc[t] = "pwt_step2"
    /\ LET step2 == [step |-> 2,
                     name |-> "Archestra Intercepts",
                     description |-> "Archestra middleware intercepts the read operation",
                     status |-> "completed",
                     data |-> [action |-> "INTERCEPT",
                               reason |-> "Automatic security scan triggered"],
                     timestamp |-> now]
       IN  /\ trace_log' = _log_trace(trace_log, frame[t].trace_id, "ARCHESTRA_INTERCEPT",
                                      step2.description, step2.data, now)
           /\ frame' = [frame EXCEPT ![t] = @ @@ [step2 |-> step2]]
    /\ pc' = [pc EXCEPT ![t] = "pwt_step3"]
    /\ ret' = NoRet
    /\ UNCHANGED <<interception_count, now, interceptions_started>>
    /\ UNCHANGED redact_call

\* Step 3: Phantom redacts
PWT_Step3(t) ==
    /\ pc[t] = "pwt_step3"
    /\ LET redaction_result == redact_document(frame[t].content)
           step3 == [step |-> 3,
                     name |-> "Phantom Redacts",
                     description |-> "Phantom automatically redacts sensitive information",
                     status |-> "completed",
                     data |-> [redactions_made |-> redaction_result.redaction_count,
                               summary |-> redaction_result.summary,
                               redaction_log |-> redaction_result.redaction_log],
                     timestamp |-> now]
       IN  /\ trace_log' = _log_trace(trace_log, frame[t].trace_id, "PHANTOM_REDACT",
                                      step3.description, step3.data, now)
           /\ frame' = [frame EXCEPT ![t] =
                           @ @@ [redaction_result |-> redaction_result, step3 |-> step3]]
    /\ pc' = [pc EXCEPT ![t] = "pwt_step4"]
    /\ ret' = NoRet
    /\ UNCHANGED <<interception_count, now, interceptions_started>>
    /\ UNCHANGED redact_call

\* Step 4: Agent receives safe data
PWT_Step4(t) ==
    /\ pc[t] = "pwt_step4"
    /\ LET redacted == frame[t].redaction_result.redacted
           step4 == [step |-> 4,
                     name |-> "Agent Sees Safe Data",
                     description |-> "Agent receives only the sanitized, safe version",
                     status |-> "completed",
                     data |-> [safe_content_preview |-> Preview(redacted),
                               length |-> Len(redacted)],
                     timestamp |-> now]
       IN  /\ trace_log' = _log_trace(trace_log, frame[t].trace_id, "SAFE_DATA_DELIVERED",
                                      step4.description, step4.data, now)
           /\ frame' = [frame EXCEPT ![t] = @ @@ [step4 |-> step4]]
    /\ pc' = [pc EXCEPT ![t] = "pwt_complete"]
    /\ ret' = NoRet
    /\ UNCHANGED <<interception_count, now, interceptions_started>>
    /\ UNCHANGED redact_call

\* lines 155-164: the dict process_with_trace returns, from its locals
PWT_Result(locals) ==
    [trace_id |-> locals.trace_id,
     original_content |-> locals.content,
     redacted_content |-> locals.redaction_result.redacted,
     safe_data |-> locals.redaction_result.redacted,
     redaction_summary |-> locals.redaction_result.summary,
     redaction_details |-> locals.redaction_result.redaction_log,
     trace_steps |-> <<locals.step1, locals.step2, locals.step3, locals.step4>>,
     interception_successful |-> TRUE]

\* self._complete_trace(trace_id); return {...}
PWT_Complete(t) ==
    /\ pc[t] = "pwt_complete"
    /\ \E tm \in Times(now) :
          /\ trace_log' = _complete_trace(trace_log, frame[t].trace_id, tm)
          /\ now' = tm
    /\ ret' = [op |-> "process_with_trace", value |-> PWT_Result(frame[t])]
    /\ pc' = [pc EXCEPT ![t] = "idle"]
    /\ frame' = [frame EXCEPT ![t] = NoFrame]
    /\ UNCHANGED <<interception_count, interceptions_started>>
    /\ UNCHANGED redact_call

(* -------------------- intercept(func): the wrapper --------------------- *)
\* the ways a caller hands content to a wrapped function
CallForms(content) ==
    {[args |-> <<content>>, kwargs |-> << >>],
     [args |-> << >>, kwargs |-> [content |-> content]]}

\* what the wrapped function may return
FuncResults == {"analysis", "report"}

\* trace_id = self._start_trace(); content = args[0] if args else kwargs.get(...)
Wrap_Start(t, call) ==
    /\ AllIdle
    /\ interception_count < MaxCalls
    /\ LET s == _start_trace(interception_count, trace_log, now)
       IN  /\ interception_count' = s.interception_count
           /\ trace_log' = s.trace_log
           /\ frame' = [frame EXCEPT ![t] =
                           [trace_id |-> s.trace_id,
                            args |-> call.args,
                            kwargs |-> call.kwargs,
                            content |-> IF call.args # << >> THEN call.args[1]
                                        ELSE DictGet(call.kwargs, "content", << >>)]]
    /\ pc' = [pc EXCEPT ![t] = "wrap_step1"]
    /\ interceptions_started' = interceptions_started + 1
    /\ ret' = NoRet
    /\ UNCHANGED now
    /\ UNCHANGED redact_call

\* Step 1: Agent attempts to read
Wrap_Step1(t) ==
    /\ pc[t] = "wrap_step1"
    /\ trace_log' = _log_trace(trace_log, frame[t].trace_id, "AGENT_READ",
                               "Agent attempting to read document",
                               [content_length |-> Len(frame[t].content),
                                timestamp |-> now], now)
    /\ pc' = [pc EXCEPT ![t] = "wrap_step2"]
    /\ ret' = NoRet
    /\ UNCHANGED <<interception_count, now, frame, interceptions_started>>
    /\ UNCHANGED redact_call

\* Step 2: Archestra intercepts
Wrap_Step2(t) ==
    /\ pc[t] = "wrap_step2"
    /\ trace_log' = _log_trace(trace_log, frame[t].trace_id, "ARCHESTRA_INTERCEPT",
                               "Archestra intercepted the read operation",
                               [interception_count |-> interception_count,
                                timestamp |-> now], now)
    /\ pc' = [pc EXCEPT ![t] = "wrap_step3"]
    /\ ret' = NoRet
    /\ UNCHANGED <<interception_count, now, frame, interceptions_started>>
    /\ UNCHANGED redact_call

\* Step 3: Phantom redacts
Wrap_Step3(t) ==
    /\ pc[t] = "wrap_step3"
    /\ LET redaction_result == redact_document(frame[t].content)
       IN  /\ trace_log' = _log_trace(trace_log, frame[t].trace_id, "PHANTOM_REDACT",
                                      "Phantom redacted sensitive data",
                                      [redactions |-> redaction_result.redaction_count,
                                       summary |-> redaction_result.summary,
                                       timestamp |-> now], now)
           /\ frame' = [frame EXCEPT ![t] = @ @@ [redaction_result |-> redaction_result]]
    /\ pc' = [pc EXCEPT ![t] = "wrap_step4"]
    /\ ret' = NoRet
    /\ UNCHANGED <<interception_count, now, interceptions_started>>
    /\ UNCHANGED redact_call

\* Step 4: Agent receives safe data
Wrap_Step4(t) ==
    /\ pc[t] = "wrap_step4"
    /\ LET safe_content == frame[t].redaction_result.redacted
       IN  /\ trace_log' = _log_trace(trace_log, frame[t].trace_id, "SAFE_DATA_DELIVERED",
                                      "Agent received sanitized data",
                                      [safe_content_length |-> Len(safe_content),
                                       timestamp |-> now], now)
           /\ frame' = [frame EXCEPT ![t] = @ @@ [safe_content |-> safe_content]]
    /\ pc' = [pc EXCEPT ![t] = "wrap_call"]
    /\ ret' = NoRet
    /\ UNCHANGED <<interception_count, now, interceptions_started>>
    /\ UNCHANGED redact_call

\* mutant: func is entered with the arguments the caller gave
Wrap_CallFunc_Original(t) ==
    /\ pc[t] = "wrap_call"
    /\ pc' = [pc EXCEPT ![t] = "wrap_func"]
    /\ ret' = NoRet
    /\ UNCHANGED <<trace_log, interception_count, now, frame, interceptions_started>>
    /\ UNCHANGED redact_call

\* the redacted content replaces the original argument and func is entered
Wrap_CallFunc(t) ==
    /\ pc[t] = "wrap_call"
    /\ frame' = [frame EXCEPT ![t] =
                    [k \in DOMAIN @ |->
                        IF k = "args" /\ @.args # << >>
                        THEN <<@.safe_content>> \o Tail(@.args)
                        ELSE IF k = "kwargs" /\ @.args = << >>
                        THEN [j \in (DOMAIN @.kwargs) \cup {"content"} |->
                                 IF j = "content" THEN @.safe_content ELSE @.kwargs[j]]
                        ELSE @[k]]]
    /\ pc' = [pc EXCEPT ![t] = "wrap_func"]
    /\ ret' = NoRet
    /\ UNCHANGED <<trace_log, interception_count, now, interceptions_started>>
    /\ UNCHANGED redact_call

\* func returns: result = func(*args, **kwargs)
Wrap_FuncReturn(t, result) ==
    /\ pc[t] = "wrap_func"
    /\ frame' = [frame EXCEPT ![t] = @ @@ [result |-> result]]
    /\ pc' = [pc EXCEPT ![t] = "wrap_complete"]
    /\ ret' = NoRet
    /\ UNCHANGED <<trace_log, interception_count, now, interceptions_started>>
    /\ UNCHANGED redact_call

\* mutant: the trace is completed on the way out, as a finally clause would
Wrap_FuncRaise_Completing(t) ==
    /\ pc[t] = "wrap_func"
    /\ \E tm \in Times(now) :
          /\ trace_log' = _complete_trace(trace_log, frame[t].trace_id, tm)
          /\ now' = tm
    /\ frame' = [frame EXCEPT ![t] = NoFrame]
    /\ pc' = [pc EXCEPT ![t] = "idle"]
    /\ ret' = [op |-> "wrapper", raised |-> TRUE]
    /\ UNCHANGED <<interception_count, interceptions_started>>
    /\ UNCHANGED redact_call

\* func raises: the exception leaves the wrapper
Wrap_FuncRaise(t) ==
    /\ pc[t] = "wrap_func"
    /\ frame' = [frame EXCEPT ![t] = NoFrame]
    /\ pc' = [pc EXCEPT ![t] = "idle"]
    /\ ret' = [op |-> "wrapper", raised |-> TRUE]
    /\ UNCHANGED <<trace_log, interception_count, now, interceptions_started>>
    /\ UNCHANGED redact_call

\* self._complete_trace(trace_id); return result
Wrap_Complete(t) ==
    /\ pc[t] = "wrap_complete"
    /\ \E tm \in Times(now) :
          /\ trace_log' = _complete_trace(trace_log, frame[t].trace_id, tm)
          /\ now' = tm
    /\ ret' = [op |-> "wrapper", raised |-> FALSE, value |-> frame[t].result]
    /\ pc' = [pc EXCEPT ![t] = "idle"]
    /\ frame' = [frame EXCEPT ![t] = NoFrame]
    /\ UNCHANGED <<interception_count, interceptions_started>>
    /\ UNCHANGED redact_call

(* ------------------------------ readers -------------------------------- *)
GetTraceHistory(limit) ==
    /\ SequentialPoint
    /\ ret' = [op |-> "get_trace_history", limit |-> limit,
               value |-> get_trace_history(trace_log, limit)]
    /\ UNCHANGED <<trace_log, interception_count, now, pc, frame, interceptions_started>>
    /\ UNCHANGED redact_call

GetTraceById(trace_id) ==
    /\ SequentialPoint
    /\ ret' = [op |-> "get_trace_by_id", trace_id |-> trace_id,
               value |-> get_trace_by_id(trace_log, trace_id)]
    /\ UNCHANGED <<trace_log, interception_count, now, pc, frame, interceptions_started>>
    /\ UNCHANGED redact_call

GetStatistics ==
    /\ SequentialPoint
    /\ ret' = [op |-> "get_statistics",
               value |-> get_statistics(trace_log, interception_count)]
    /\ UNCHANGED <<trace_log, interception_count, now, pc, frame, interceptions_started>>
    /\ UNCHANGED redact_call

\* the limits and ids a caller asks for
Limits == 0..(Len(trace_log) + 1)
AskedIds == {TraceIdOf(k) : k \in 0..(Len(trace_log) + 1)}
              \cup {<<"T", "R", "A", "C", "E", "-", "1">>}

\* sequential code: every call is made by the one thread
SequentialCallers == {1}

Next ==
    \/ \E t \in SequentialCallers : \E content \in Documents : PWT_Start(t, content)
    \/ \E t \in SequentialCallers : PWT_Step1(t)
    \/ \E t \in SequentialCallers : PWT_Step2(t)
    \/ \E t \in SequentialCallers : PWT_Step3(t)
    \/ \E t \in SequentialCallers : PWT_Step4(t)
    \/ \E t \in SequentialCallers : PWT_Complete(t)
    \/ \E t \in SequentialCallers : \E content \in Documents :
          \E call \in CallForms(content) : Wrap_Start(t, call)
    \/ \E t \in SequentialCallers : Wrap_Step1(t)
    \/ \E t \in SequentialCallers : Wrap_Step2(t)
    \/ \E t \in SequentialCallers : Wrap_Step3(t)
    \/ \E t \in SequentialCallers : Wrap_Step4(t)
    \/ \E t \in SequentialCallers : Wrap_CallFunc(t)
    \/ \E t \in SequentialCallers : \E result \in FuncResults : Wrap_FuncReturn(t, result)
    \/ \E t \in SequentialCallers : Wrap_FuncRaise(t)
    \/ \E t \in SequentialCallers : Wrap_Complete(t)
    \/ \E limit \in Limits : GetTraceHistory(limit)
    \/ \E trace_id \in AskedIds : GetTraceById(trace_id)
    \/ GetStatistics

vars == <<trace_log, interception_count, now, pc, frame, ret,
         interceptions_started, redact_call>>

Spec == Init /\ [][Next]_vars

(* ======================= claims: the interceptor ======================= *)
\* "TRACE-" and k in four decimal digits, for k up to 9999
ExpectedTraceId(k) ==
    <<"T", "R", "A", "C", "E", "-",
      DigitChar((k \div 1000) % 10), DigitChar((k \div 100) % 10),
      DigitChar((k \div 10) % 10), DigitChar(k % 10)>>

DigitValue(c) == CHOOSE d \in 0..9 : DigitChar(d) = c

RECURSIVE ParseDigits(_)
ParseDigits(s) ==
    IF s = << >> THEN 0
    ELSE 10 * ParseDigits(SubSeq(s, 1, Len(s) - 1)) + DigitValue(s[Len(s)])

\* the sequence number written in a trace id
SequenceNumber(trace_id) == ParseDigits(SubSeq(trace_id, 7, Len(trace_id)))

IsCompleted(trace) == trace.status = "completed"

\* a trace made by process_with_trace, and one made by a wrapper
MadeByProcessWithTrace(trace) ==
    /\ Len(trace.events) >= 1
    /\ "content_preview" \in DOMAIN trace.events[1].data

MadeByWrapper(trace) ==
    /\ Len(trace.events) >= 1
    /\ "content_length" \in DOMAIN trace.events[1].data

\* C1: the k-th interception, whichever way it is made, gets the trace id
\* TRACE-<k in 4 digits>; the sequence numbers of the ids increase strictly
\* along the history and no two traces share an id.
C1_TraceIdsSequential ==
    /\ \A k \in 1..Len(trace_log) : trace_log[k].trace_id = ExpectedTraceId(k)
    /\ \A i, j \in 1..Len(trace_log) :
          i < j => /\ SequenceNumber(trace_log[i].trace_id)
                        < SequenceNumber(trace_log[j].trace_id)
                   /\ trace_log[i].trace_id # trace_log[j].trace_id

C1_Witness ==
    /\ Len(trace_log) >= 3
    /\ \E i, j \in 1..Len(trace_log) :
          /\ MadeByProcessWithTrace(trace_log[i])
          /\ MadeByWrapper(trace_log[j])

EventTypes(trace) == [j \in 1..Len(trace.events) |-> trace.events[j].type]

\* C2: every completed trace has exactly the 4 events AGENT_READ,
\* ARCHESTRA_INTERCEPT, PHANTOM_REDACT, SAFE_DATA_DELIVERED in that order, an
\* end_time not before its start_time, and duration = end_time - start_time.
C2_CompletedTraceShape ==
    \A i \in 1..Len(trace_log) :
       IsCompleted(trace_log[i]) =>
          /\ EventTypes(trace_log[i]) = <<"AGENT_READ", "ARCHESTRA_INTERCEPT",
                                          "PHANTOM_REDACT", "SAFE_DATA_DELIVERED">>
          /\ {"end_time", "duration"} \subseteq DOMAIN trace_log[i]
          /\ trace_log[i].end_time >= trace_log[i].start_time
          /\ trace_log[i].duration = trace_log[i].end_time - trace_log[i].start_time

C2_Witness ==
    \E i, j \in 1..Len(trace_log) :
       /\ IsCompleted(trace_log[i]) /\ MadeByProcessWithTrace(trace_log[i])
       /\ trace_log[i].duration > 0
       /\ IsCompleted(trace_log[j]) /\ MadeByWrapper(trace_log[j])
       /\ trace_log[j].start_time > 0

\* C3: in sequential use a completed trace never changes again: it stays in
\* the history, stays completed, and its events, end_time and duration are
\* what they were when it was completed.
C3_Step ==
    \A i \in 1..Len(trace_log) :
       IsCompleted(trace_log[i]) =>
          /\ i <= Len(trace_log')
          /\ trace_log'[i] = trace_log[i]

C3_CompletedIsTerminal == [][C3_Step]_vars

C3_Witness ==
    \E i, j \in 1..Len(trace_log) :
       /\ i < j
       /\ IsCompleted(trace_log[i])
       /\ IsCompleted(trace_log[j])
       /\ Len(trace_log[j].events) = 4

\* the redaction count that the PHANTOM_REDACT event of a trace recorded
RecordedRedactionCount(trace) ==
    SeqSum([j \in 1..Len(trace.events) |->
               IF trace.events[j].type # "PHANTOM_REDACT" THEN 0
               ELSE IF "redactions" \in DOMAIN trace.events[j].data
               THEN trace.events[j].data.redactions
               ELSE trace.events[j].data.redactions_made])

\* C4: get_statistics().total_redactions is the sum, over the completed
\* traces, of the redaction count recorded in the trace's PHANTOM_REDACT event.
C4_TotalRedactionsIsSum ==
    ret.op = "get_statistics" =>
       ret.value.total_redactions =
          SeqSum([i \in 1..Len(trace_log) |->
                     IF IsCompleted(trace_log[i])
                     THEN RecordedRedactionCount(trace_log[i]) ELSE 0])

CompletedCount == Cardinality({i \in 1..Len(trace_log) : IsCompleted(trace_log[i])})

CompletedDurations ==
    SeqSum([i \in 1..Len(trace_log) |->
               IF IsCompleted(trace_log[i]) THEN trace_log[i].duration ELSE 0])

\* C5: get_statistics().average_duration is the sum of the durations of the
\* completed traces divided by their number, 0 when there is none; traces in
\* progress do not change it.
C5_AverageOverCompleted ==
    ret.op = "get_statistics" =>
       ret.value.average_duration =
          IF CompletedCount = 0 THEN Ratio(0, 1)
          ELSE Ratio(CompletedDurations, CompletedCount)

\* C6, in every state: the counter, the number of interceptions started and
\* the number of traces agree, and get_statistics reports that number
C6_Counts ==
    /\ interception_count = interceptions_started
    /\ Len(trace_log) = interceptions_started
    /\ ret.op = "get_statistics" =>
          ret.value.total_interceptions = interceptions_started

\* C6, in every step: the history changes only by a new in_progress trace
\* appended when an interception starts; no trace is removed, replaced or moved
C6_Step ==
    /\ \A i \in 1..Len(trace_log) :
          /\ i <= Len(trace_log')
          /\ trace_log'[i].trace_id = trace_log[i].trace_id
          /\ trace_log'[i].start_time = trace_log[i].start_time
    /\ \/ /\ interceptions_started' = interceptions_started
          /\ Len(trace_log') = Len(trace_log)
       \/ /\ interceptions_started' = interceptions_started + 1
          /\ Len(trace_log') = Len(trace_log) + 1
          /\ trace_log'[Len(trace_log')].status = "in_progress"
          /\ trace_log'[Len(trace_log')].events = << >>

\* C6: total_interceptions equals the number of interceptions started and
\* the number of traces in the history; traces are created one per
\* interception and never removed, replaced or reordered.
C6_OneTracePerInterception == [](C6_Counts) /\ [][C6_Step]_vars

C6_Witness ==
    /\ ret.op = "get_statistics"
    /\ ret.value.total_interceptions = 3
    /\ Len(trace_log) = 3
    /\ interceptions_started = 3

\* the last k elements of s, in the order of s
LastK(s, k) == SubSeq(s, Len(s) - k + 1, Len(s))

\* C7: get_trace_history(limit), for limit >= 0, returns exactly the
\* min(limit, n) most recently created traces of the n in the history, oldest
\* first.
C7_HistoryWindow ==
    ret.op = "get_trace_history" =>
       ret.value = LastK(trace_log, Min(ret.limit, Len(trace_log)))

\* C8, in every state: a lookup returns the trace with the asked id when an
\* interception was given that id, and None otherwise
C8_Result ==
    ret.op = "get_trace_by_id" =>
       IF \E k \in 1..interceptions_started : ret.trace_id = ExpectedTraceId(k)
       THEN /\ ret.value # None
            /\ ret.value.trace_id = ret.trace_id
            /\ \E i \in 1..Len(trace_log) : trace_log[i] = ret.value
       ELSE ret.value = None

\* C8, in every step: a lookup leaves the history and the counter alone
C8_Step ==
    ret'.op = "get_trace_by_id" =>
       /\ trace_log' = trace_log
       /\ interception_count' = interception_count

\* C8: get_trace_by_id(id) returns the trace whose trace_id is id exactly when
\* such a trace was created, and None otherwise, without changing the history
\* or the counter.
C8_LookupById == [](C8_Result) /\ [][C8_Step]_vars

C8_Witness ==
    /\ ret.op = "get_trace_by_id"
    /\ ret.value = None
    /\ ret.trace_id = <<"T", "R", "A", "C", "E", "-", "1">>
    /\ Len(trace_log) >= 1

(* ================== redact_text(text, preserve_format) ================= *)
\* the pattern names that detection reports in the texts below
InputKinds == {"email", "password"}

\* the texts: their characters all differ, so that a character that is moved,
\* lost or left unmasked shows
TextOfLetters == [i \in 1..MaxTextLen |->
                    <<"a", "b", "c", "d", "e", "f", "g", "h", "i", "j">>[i]]

Texts == {SubSeq(TextOfLetters, 1, n) : n \in 0..MaxTextLen}

Spans(text) == {sp \in (0..Len(text)) \X (0..Len(text)) : sp[1] < sp[2]}

FindingsIn(text) ==
    {Finding(k, text, sp[1], sp[2]) : k \in InputKinds, sp \in Spans(text)}

\* the detections of exactly n findings, built one finding at a time
RECURSIVE DetectionsOfLen(_, _)
DetectionsOfLen(text, n) ==
    IF n = 0 THEN {<< >>}
    ELSE {fs \in {Append(gs, f) : gs \in DetectionsOfLen(text, n - 1),
                                  f \in FindingsIn(text)} :
             IsDetection(text, fs)}

\* what inspect_text may return for text: at most MaxFindings findings
DetectionResults(text) == UNION {DetectionsOfLen(text, n) : n \in 0..MaxFindings}

\* mutant: the loop runs over the findings in detection order, unsorted
Redact_Begin_Unsorted ==
    /\ redact_call.pc = "idle"
    /\ \E text \in Texts : \E findings \in DetectionResults(text) :
          \E preserve_format \in BOOLEAN :
             redact_call' = [pc |-> "loop",
                             text |-> text,
                             preserve_format |-> preserve_format,
                             findings |-> findings,
                             findings_sorted |-> findings,
                             done |-> 0,
                             redacted_text |-> text,
                             redaction_log |-> << >>]
    /\ UNCHANGED ivars

\* lines 40-46: detection, the sort, and the two locals of the loop
Redact_Begin ==
    /\ redact_call.pc = "idle"
    /\ \E text \in Texts : \E findings \in DetectionResults(text) :
          \E preserve_format \in BOOLEAN :
             redact_call' = [pc |-> "loop",
                             text |-> text,
                             preserve_format |-> preserve_format,
                             findings |-> findings,
                             findings_sorted |-> SortByStartReverse(findings),
                             done |-> 0,
                             redacted_text |-> text,
                             redaction_log |-> << >>]
    /\ UNCHANGED ivars

\* mutant: the record of the iteration is put at the head of the log
Redact_Iterate_Prepending ==
    /\ redact_call.pc = "loop"
    /\ redact_call.done < Len(redact_call.findings_sorted)
    /\ LET finding == redact_call.findings_sorted[redact_call.done + 1]
           st == RedactOne([redacted_text |-> redact_call.redacted_text,
                            redaction_log |-> << >>],
                           finding, redact_call.preserve_format)
       IN  redact_call' = [redact_call EXCEPT !.done = @ + 1,
                                              !.redacted_text = st.redacted_text,
                                              !.redaction_log =
                                                  st.redaction_log \o redact_call.redaction_log]
    /\ UNCHANGED ivars

\* lines 48-74: one iteration of "for finding in findings_sorted"
Redact_Iterate ==
    /\ redact_call.pc = "loop"
    /\ redact_call.done < Len(redact_call.findings_sorted)
    /\ LET finding == redact_call.findings_sorted[redact_call.done + 1]
           st == RedactOne([redacted_text |-> redact_call.redacted_text,
                            redaction_log |-> redact_call.redaction_log],
                           finding, redact_call.preserve_format)
       IN  redact_call' = [redact_call EXCEPT !.done = @ + 1,
                                              !.redacted_text = st.redacted_text,
                                              !.redaction_log = st.redaction_log]
    /\ UNCHANGED ivars

\* line 76: return redacted_text, redaction_log
Redact_Return ==
    /\ redact_call.pc = "loop"
    /\ redact_call.done = Len(redact_call.findings_sorted)
    /\ redact_call' = [redact_call EXCEPT !.pc = "returned"]
    /\ UNCHANGED ivars

\* redact_document, lines 88-96: its call of redact_text (preserve_format
\* left at its default, True) has returned; the result dict is built
RedactDocument_Return ==
    /\ redact_call.pc = "returned"
    /\ redact_call.preserve_format
    /\ redact_call' =
          [pc |-> "document"] @@
          [original |-> redact_call.text,
           redacted |-> redact_call.redacted_text,
           redaction_count |-> Len(redact_call.redaction_log),
           summary |-> _create_summary(redact_call.redaction_log)] @@
          redact_call
    /\ UNCHANGED ivars

NextRedact ==
    \/ Redact_Begin
    \/ Redact_Iterate
    \/ Redact_Return
    \/ RedactDocument_Return

SpecRedact == Init /\ [][NextRedact]_vars

(* ======================== claims: the redactor ========================= *)
Returned == redact_call.pc = "returned"

\* the findings of a log record: its type, position and severity
RecordKey(r) == <<r.type, r.position, r.severity>>

\* C9: the log returned by redact_text has exactly one record per finding of
\* detection, in both modes and also when spans overlap or coincide: no
\* finding is dropped, merged or duplicated.
C9_OneRecordPerFinding ==
    Returned =>
       /\ Len(redact_call.redaction_log) = Len(redact_call.findings)
       /\ \A i \in 1..Len(redact_call.findings) :
             Cardinality({j \in 1..Len(redact_call.redaction_log) :
                             RecordKey(redact_call.redaction_log[j])
                                = RecordKey(redact_call.findings[i])})
             = Cardinality({j \in 1..Len(redact_call.findings) :
                               redact_call.findings[j] = redact_call.findings[i]})

Overlap(f, g) == f.position[1] < g.position[2] /\ g.position[1] < f.position[2]

C9_Witness ==
    /\ Returned
    /\ Len(redact_call.redaction_log) = 2
    /\ redact_call.findings[1].position[1] = redact_call.findings[2].position[1]
    /\ Overlap(redact_call.findings[1], redact_call.findings[2])

AllMask(s) == \A i \in 1..Len(s) : s[i] = "*"

\* C10: with preserve_format = true the redacted value of every record has
\* the length of the matched value; longer than 4 characters, it is the first
\* 2 characters of the matched value followed by '*' only; of 4 characters or
\* fewer, it is '*' only.
C10_MaskShape ==
    (redact_call.pc # "idle" /\ redact_call.preserve_format) =>
       \A j \in 1..Len(redact_call.redaction_log) :
          LET r == redact_call.redaction_log[j]
          IN  /\ Len(r.redacted) = Len(r.original)
              /\ Len(r.original) > 4 =>
                    /\ SubSeq(r.redacted, 1, 2) = SubSeq(r.original, 1, 2)
                    /\ AllMask(SubSeq(r.redacted, 3, Len(r.redacted)))
              /\ Len(r.original) <= 4 => AllMask(r.redacted)

C10_Witness ==
    /\ Returned
    /\ redact_call.preserve_format
    /\ \E i, j \in 1..Len(redact_call.redaction_log) :
          /\ Len(redact_call.redaction_log[i].original) = 5
          /\ Len(redact_call.redaction_log[j].original) = 4

\* C11: with preserve_format = false the redacted value of every record is the
\* marker of the record's kind in the marker table, whatever the matched value
\* and its length.
C11_MarkerMode ==
    (redact_call.pc # "idle" /\ ~redact_call.preserve_format) =>
       \A j \in 1..Len(redact_call.redaction_log) :
          LET r == redact_call.redaction_log[j]
          IN  /\ r.type \in PatternNames
              /\ r.redacted = REDACTION_MARKERS(r.type)

C11_Witness ==
    /\ Returned
    /\ ~redact_call.preserve_format
    /\ \E i, j \in 1..Len(redact_call.redaction_log) :
          /\ redact_call.redaction_log[i].type = "email"
          /\ redact_call.redaction_log[j].type = "password"
          /\ Len(redact_call.redaction_log[i].original)
                # Len(redact_call.redaction_log[j].original)

\* no two findings of fs have a character of the text in common
PairwiseDisjoint(fs) ==
    \A i, j \in 1..Len(fs) : i # j => ~Overlap(fs[i], fs[j])

\* the loop takes the findings by non-increasing start, and the span of the
\* finding it is about to process holds in the text rewritten so far the
\* characters the original text has there
SpansUnshifted ==
    redact_call.pc = "loop" =>
       /\ \A i \in 1..(Len(redact_call.findings_sorted) - 1) :
             redact_call.findings_sorted[i].position[1]
                >= redact_call.findings_sorted[i + 1].position[1]
       /\ redact_call.done < Len(redact_call.findings_sorted) =>
             LET f == redact_call.findings_sorted[redact_call.done + 1]
             IN  PySlice(redact_call.redacted_text, f.position[1], f.position[2])
                    = PySlice(redact_call.text, f.position[1], f.position[2])

\* C12 as stated: for every set of findings and both modes, redact_text
\* processes the findings by descending start and, when a finding is
\* processed, its span in the partially rewritten text holds exactly the
\* characters of the original text at that span.
C12_SpansUnshifted == SpansUnshifted

\* C12, amended: the same, for findings whose spans are pairwise disjoint.
C12_SpansUnshiftedWhenDisjoint ==
    (redact_call.pc # "idle" /\ PairwiseDisjoint(redact_call.findings))
       => SpansUnshifted

C12_Witness ==
    /\ redact_call.pc = "loop"
    /\ Len(redact_call.findings) = 2
    /\ PairwiseDisjoint(redact_call.findings)
    /\ redact_call.done = 1
    /\ ~redact_call.preserve_format
    /\ Len(redact_call.redacted_text) # Len(redact_call.text)

\* the text read from left to right from offset pos on, every span of recs
\* replaced by the redacted value of its record, the characters between the
\* spans and after the last one copied
RECURSIVE Rebuild(_, _, _)
Rebuild(text, pos, recs) ==
    IF recs = {} THEN PySliceFrom(text, pos)
    ELSE LET r == CHOOSE x \in recs :
                     \A y \in recs : x.position[1] <= y.position[1]
         IN  PySlice(text, pos, r.position[1]) \o r.redacted
                \o Rebuild(text, r.position[2], recs \ {r})

\* C13: when the spans of the findings are pairwise disjoint, in both modes,
\* the text returned is the original text with every span replaced by the
\* redacted value of its finding and every other character kept in place and
\* in order; with no finding the text is returned unchanged and the log is
\* empty.
C13_DisjointRewrite ==
    (Returned /\ PairwiseDisjoint(redact_call.findings)) =>
       /\ redact_call.redacted_text
             = Rebuild(redact_call.text, 0,
                       {redact_call.redaction_log[j] :
                           j \in 1..Len(redact_call.redaction_log)})
       /\ redact_call.findings = << >> =>
             /\ redact_call.redacted_text = redact_call.text
             /\ redact_call.redaction_log = << >>

C13_Witness ==
    /\ Returned
    /\ ~redact_call.preserve_format
    /\ Len(redact_call.findings) = 2
    /\ PairwiseDisjoint(redact_call.findings)
    /\ \E i, j \in 1..2 :
          /\ 0 < redact_call.findings[i].position[1]
          /\ redact_call.findings[i].position[2]
                < redact_call.findings[j].position[1]
          /\ redact_call.findings[j].position[2] < Len(redact_call.text)
    /\ redact_call.redacted_text # redact_call.text

\* C14: the log lists the records in the order the redactions were applied,
\* that is by non-increasing start in the original text, and every record
\* carries the type, the severity and the position of its finding as they
\* were detected: the position is in the coordinates of the original text,
\* whatever the replacements did to the lengths.
C14_LogInApplicationOrder ==
    redact_call.pc # "idle" =>
       /\ Len(redact_call.redaction_log) = redact_call.done
       /\ \A j \in 1..Len(redact_call.redaction_log) :
             LET r == redact_call.redaction_log[j]
                 f == redact_call.findings_sorted[j]
             IN  /\ r.type = f.type
                 /\ r.severity = f.severity
                 /\ r.position = f.position
                 /\ \E i \in 1..Len(redact_call.findings) :
                       RecordKey(r) = RecordKey(redact_call.findings[i])
                 /\ r.original = PySlice(redact_call.text, r.position[1], r.position[2])
       /\ \A j \in 1..(Len(redact_call.redaction_log) - 1) :
             redact_call.redaction_log[j].position[1]
                >= redact_call.redaction_log[j + 1].position[1]

C14_Witness ==
    /\ Returned
    /\ ~redact_call.preserve_format
    /\ Len(redact_call.redaction_log) = 2
    /\ redact_call.redaction_log[1].position[1]
          > redact_call.redaction_log[2].position[1]
    /\ redact_call.findings[1].position[1] < redact_call.findings[2].position[1]
    /\ redact_call.redaction_log[1].position[2] <= Len(redact_call.text)
    /\ Len(redact_call.redacted_text) > Len(redact_call.text)

\* the sum of the values of the counter dict f over keys
RECURSIVE SumOver(_, _)
SumOver(f, keys) ==
    IF keys = {} THEN 0
    ELSE LET k == CHOOSE x \in keys : TRUE
         IN  f[k] + SumOver(f, keys \ {k})

\* C15: in the result of redact_document, for every document, the summary's
\* total_redactions, the result's redaction_count, the length of the log, the
\* sum of the by_type counts and the sum of the by_severity counts are the
\* same number; by_type holds for each kind present its number of records;
\* by_severity has the three keys HIGH, MEDIUM and LOW, counting the records
\* of each severity.
C15_SummaryCounts ==
    redact_call.pc = "document" =>
       LET log == redact_call.redaction_log
           summary == redact_call.summary
           n == Len(log)
       IN  /\ summary.total_redactions = n
           /\ redact_call.redaction_count = n
           /\ SumOver(summary.by_type, DOMAIN summary.by_type) = n
           /\ SumOver(summary.by_severity, DOMAIN summary.by_severity) = n
           /\ DOMAIN summary.by_type = {log[i].type : i \in 1..n}
           /\ \A k \in DOMAIN summary.by_type :
                 summary.by_type[k]
                    = Cardinality({i \in 1..n : log[i].type = k})
           /\ DOMAIN summary.by_severity = {"HIGH", "MEDIUM", "LOW"}
           /\ \A v \in DOMAIN summary.by_severity :
                 summary.by_severity[v]
                    = Cardinality({i \in 1..n : log[i].severity = v})

C15_Witness ==
    /\ redact_call.pc = "document"
    /\ redact_call.redaction_count = 2
    /\ \E k \in DOMAIN redact_call.summary.by_type :
          redact_call.summary.by_type[k] = 2
    /\ redact_call.summary.by_severity["MEDIUM"] = 0

(* ============ archestra.py: calls made from several threads ============ *)
\* The interceptor is one object shared by the whole process (lines 240-241)
\* and no method takes a lock. A thread may be switched out between any two
\* reads or writes of the shared attributes, so _start_trace and
\* _complete_trace are taken apart into those reads and writes; the steps of
\* process_with_trace between them are the actions PWT_Step1 .. PWT_Step4.

\* the interceptions made in all by the threads
MaxThreadCalls == 2

\* line 168, self.interception_count += 1: the attribute is read
StartTrace_Load(t, content) ==
    /\ pc[t] = "idle"
    /\ interceptions_started < MaxThreadCalls
    /\ frame' = [frame EXCEPT ![t] =
                    [content |-> content, loaded |-> interception_count]]
    /\ pc' = [pc EXCEPT ![t] = "start_store"]
    /\ interceptions_started' = interceptions_started + 1
    /\ ret' = NoRet
    /\ UNCHANGED <<trace_log, interception_count, now>>
    /\ UNCHANGED redact_call

\* line 168, self.interception_count += 1: the sum is written back
StartTrace_Store(t) ==
    /\ pc[t] = "start_store"
    /\ interception_count' = frame[t].loaded + 1
    /\ pc' = [pc EXCEPT ![t] = "start_format"]
    /\ ret' = NoRet
    /\ UNCHANGED <<trace_log, now, frame, interceptions_started>>
    /\ UNCHANGED redact_call

\* line 169: the id is formatted from the attribute, read again
StartTrace_Format(t) ==
    /\ pc[t] = "start_format"
    /\ frame' = [frame EXCEPT ![t] =
                    @ @@ [trace_id |-> TraceIdOf(interception_count)]]
    /\ pc' = [pc EXCEPT ![t] = "start_append"]
    /\ ret' = NoRet
    /\ UNCHANGED <<trace_log, interception_count, now, interceptions_started>>
    /\ UNCHANGED redact_call

\* lines 171-176: the new trace is appended to the history
StartTrace_Append(t) ==
    /\ pc[t] = "start_append"
    /\ trace_log' = Append(trace_log, [trace_id |-> frame[t].trace_id,
                                       start_time |-> now,
                                       events |-> << >>,
                                       status |-> "in_progress"])
    /\ pc' = [pc EXCEPT ![t] = "pwt_step1"]
    /\ ret' = NoRet
    /\ UNCHANGED <<interception_count, now, frame, interceptions_started>>
    /\ UNCHANGED redact_call

\* lines 194-196: the scan finds the trace and sets its status
CompleteTrace_Status(t) ==
    /\ pc[t] = "pwt_complete"
    /\ LET i == FirstIndex(trace_log, frame[t].trace_id)
       IN  /\ i > 0
           /\ trace_log' = [trace_log EXCEPT ![i].status = "completed"]
           /\ frame' = [frame EXCEPT ![t] = @ @@ [trace |-> i]]
    /\ pc' = [pc EXCEPT ![t] = "complete_end_time"]
    /\ ret' = NoRet
    /\ UNCHANGED <<interception_count, now, interceptions_started>>
    /\ UNCHANGED redact_call

\* line 197: trace['end_time'] = time.time()
CompleteTrace_EndTime(t) ==
    /\ pc[t] = "complete_end_time"
    /\ \E tm \in Times(now) :
          /\ trace_log' = [trace_log EXCEPT ![frame[t].trace] =
                               [end_time |-> tm] @@ @]
          /\ now' = tm
    /\ pc' = [pc EXCEPT ![t] = "complete_duration"]
    /\ ret' = NoRet
    /\ UNCHANGED <<interception_count, frame, interceptions_started>>
    /\ UNCHANGED redact_call

\* line 198: trace['duration'] = trace['end_time'] - trace['start_time'],
\* and process_with_trace returns (lines 155-164)
CompleteTrace_Duration(t) ==
    /\ pc[t] = "complete_duration"
    /\ trace_log' = [trace_log EXCEPT ![frame[t].trace] =
                         [duration |-> @.end_time - @.start_time] @@ @]
    /\ ret' = [op |-> "process_with_trace", value |-> PWT_Result(frame[t])]
    /\ pc' = [pc EXCEPT ![t] = "idle"]
    /\ frame' = [frame EXCEPT ![t] = NoFrame]
    /\ UNCHANGED <<interception_count, now, interceptions_started>>
    /\ UNCHANGED redact_call

\* a request served by another thread reads the history while interceptions
\* are under way (src/app.py, routes /api/trace and /api/trace/<trace_id>)
Thread_GetTraceHistory(limit) ==
    /\ ret' = [op |-> "get_trace_history", limit |-> limit,
               value |-> get_trace_history(trace_log, limit)]
    /\ UNCHANGED <<trace_log, interception_count, now, pc, frame,
                   interceptions_started>>
    /\ UNCHANGED redact_call

Thread_GetTraceById(trace_id) ==
    /\ ret' = [op |-> "get_trace_by_id", trace_id |-> trace_id,
               value |-> get_trace_by_id(trace_log, trace_id)]
    /\ UNCHANGED <<trace_log, interception_count, now, pc, frame,
                   interceptions_started>>
    /\ UNCHANGED redact_call

NextThreads ==
    \/ \E t \in Threads : \E content \in Documents : StartTrace_Load(t, content)
    \/ \E t \in Threads : StartTrace_Store(t)
    \/ \E t \in Threads : StartTrace_Format(t)
    \/ \E t \in Threads : StartTrace_Append(t)
    \/ \E t \in Threads : PWT_Step1(t)
    \/ \E t \in Threads : PWT_Step2(t)
    \/ \E t \in Threads : PWT_Step3(t)
    \/ \E t \in Threads : PWT_Step4(t)
    \/ \E t \in Threads : CompleteTrace_Status(t)
    \/ \E t \in Threads : CompleteTrace_EndTime(t)
    \/ \E t \in Threads : CompleteTrace_Duration(t)
    \/ \E limit \in Limits : Thread_GetTraceHistory(limit)
    \/ \E trace_id \in AskedIds : Thread_GetTraceById(trace_id)

SpecThreads == Init /\ [][NextThreads]_vars

(* ==================== claims: calls from several threads =============== *)
\* C16: when interceptions run in several threads on the shared interceptor,
\* no two of them obtain the same trace id, whatever the interleaving of the
\* increment of the counter, the formatting of the id and the append to the
\* history: the ids held by the threads and the ids of the traces of the
\* history are pairwise different.
C16_NoSharedTraceId ==
    /\ \A t, u \in Threads :
          (t # u /\ "trace_id" \in DOMAIN frame[t] /\ "trace_id" \in DOMAIN frame[u])
             => frame[t].trace_id # frame[u].trace_id
    /\ \A i, j \in 1..Len(trace_log) :
          i # j => trace_log[i].trace_id # trace_log[j].trace_id

\* the traces a reader was handed
TracesRead ==
    IF ret.op = "get_trace_history"
    THEN {ret.value[i] : i \in 1..Len(ret.value)}
    ELSE IF ret.op = "get_trace_by_id" /\ ret.value # None
    THEN {ret.value}
    ELSE {}

\* C17: a reader running while an interception is under way never sees a
\* trace whose status is completed and that lacks its end_time, its duration
\* or one of its four events.
C17_ReaderSeesWholeTraces ==
    \A trace \in TracesRead :
       trace.status = "completed" =>
          /\ "end_time" \in DOMAIN trace
          /\ "duration" \in DOMAIN trace
          /\ Len(trace.events) = 4

(* ================== claims: the wrapper and the result ================= *)
\* the content func is called with: its first positional argument, or its
\* 'content' keyword when there is no positional argument
Received(locals) ==
    IF locals.args # << >> THEN locals.args[1] ELSE locals.kwargs.content

\* the types of the events of the first trace with that id, in order
EventTypesOf(trace_id) ==
    EventTypes(trace_log[FirstIndex(trace_log, trace_id)])

StatusOf(trace_id) == trace_log[FirstIndex(trace_log, trace_id)].status

\* while func runs: the events are logged, the trace is open, and func holds
\* the redacted content
C18_State ==
    \A t \in Threads :
       /\ pc[t] = "wrap_func" =>
             /\ EventTypesOf(frame[t].trace_id)
                   = <<"AGENT_READ", "ARCHESTRA_INTERCEPT",
                       "PHANTOM_REDACT", "SAFE_DATA_DELIVERED">>
             /\ StatusOf(frame[t].trace_id) = "in_progress"
             /\ Received(frame[t])
                   = RedactFindings(frame[t].content,
                                    inspect_text(frame[t].content), TRUE).redacted_text
             /\ inspect_text(frame[t].content) # << >> =>
                   Received(frame[t]) # frame[t].content
       /\ pc[t] = "wrap_complete" => StatusOf(frame[t].trace_id) = "in_progress"

\* the step that leaves the wrapper after func has returned completes the
\* trace and returns the value func returned
C18_Step ==
    \A t \in Threads :
       (pc[t] = "wrap_complete" /\ pc'[t] = "idle") =>
          /\ ret'.op = "wrapper"
          /\ ~ret'.raised
          /\ ret'.value = frame[t].result
          /\ trace_log'[FirstIndex(trace_log, frame[t].trace_id)].status = "completed"

\* C18: for a function wrapped by intercept, called with the content as first
\* positional argument or as 'content' keyword, func is invoked only after the
\* PHANTOM_REDACT and SAFE_DATA_DELIVERED events are logged, it receives the
\* redacted content in place of the original, the trace is completed only
\* after func has returned, and the wrapper returns the value of func
\* unchanged.
C18_WrappedCall == [](C18_State) /\ [][C18_Step]_vars

C18_Witness ==
    \E t \in Threads :
       /\ pc[t] = "wrap_complete"
       /\ frame[t].args = << >>
       /\ frame[t].kwargs.content # frame[t].content
       /\ frame[t].result = "report"

\* C19: in every trace, made by process_with_trace or by a wrapper, the
\* payload of the ARCHESTRA_INTERCEPT event records the value the interception
\* counter had when the event was logged; calls being made one after the
\* other, that value is the sequence number of the trace id.
C19_InterceptRecordsCounter ==
    \A i \in 1..Len(trace_log) :
       \A j \in 1..Len(trace_log[i].events) :
          LET event == trace_log[i].events[j]
          IN  event.type = "ARCHESTRA_INTERCEPT" =>
                 /\ "interception_count" \in DOMAIN event.data
                 /\ event.data.interception_count
                       = SequenceNumber(trace_log[i].trace_id)

\* what the result of process_with_trace says of itself and of the history
C20_State ==
    ret.op = "process_with_trace" =>
       LET v == ret.value
           i == FirstIndex(trace_log, v.trace_id)
       IN  /\ i > 0
           /\ trace_log[i].status = "completed"
           /\ Len(v.trace_steps) = 4
           /\ Len(trace_log[i].events) = 4
           /\ \A k \in 1..4 :
                 /\ v.trace_steps[k].step = k
                 /\ v.trace_steps[k].description = trace_log[i].events[k].description
                 /\ v.trace_steps[k].data = trace_log[i].events[k].data
           /\ v.redacted_content = v.safe_data
           /\ v.redacted_content
                 = RedactFindings(v.original_content,
                                  inspect_text(v.original_content), TRUE).redacted_text
           /\ v.redaction_summary.total_redactions = Len(v.redaction_details)
           /\ v.interception_successful = TRUE

\* the result names the content the call was given
C20_Step ==
    \A t \in Threads :
       (pc[t] = "pwt_complete" /\ pc'[t] = "idle") =>
          /\ ret'.op = "process_with_trace"
          /\ ret'.value.original_content = frame[t].content
          /\ ret'.value.trace_id = frame[t].trace_id

\* C20: in every result of process_with_trace, trace_id names a trace that is
\* in the history, completed, when the call returns; trace_steps are exactly
\* 4 steps numbered 1 to 4, one per stored event of that trace and in the same
\* order, with the same description and data; original_content is the input;
\* redacted_content and safe_data are both the preserve-format redaction of
\* the input; redaction_summary.total_redactions is the length of
\* redaction_details; interception_successful is true.
C20_ResultMatchesTrace == [](C20_State) /\ [][C20_Step]_vars

C20_Witness ==
    /\ ret.op = "process_with_trace"
    /\ Len(trace_log) >= 2
    /\ ret.value.trace_id = trace_log[Len(trace_log)].trace_id
    /\ Len(ret.value.redaction_details) = 2
    /\ ret.value.redacted_content # ret.value.original_content

(* ============= claims: format-preserving masks and overlap ============= *)
\* the offsets of the text that lie at offset 2 or more inside the span of a
\* finding of more than 4 characters
MaskedOffsets(fs) ==
    UNION {IF fs[i].position[2] - fs[i].position[1] > 4
           THEN (fs[i].position[1] + 2)..(fs[i].position[2] - 1)
           ELSE {} : i \in 1..Len(fs)}

\* C21: with preserve_format = true, for every text and every findings whose
\* value is the text at their span, spans that overlap, nest or share a start
\* included, every offset that lies at offset 2 or more inside the span of a
\* finding longer than 4 characters holds '*' in the text returned: a later
\* replacement never shows again a character an earlier one masked.
C21_MaskedStaysMasked ==
    (redact_call.pc \in {"returned", "document"} /\ redact_call.preserve_format) =>
       \A p \in MaskedOffsets(redact_call.findings) :
          /\ p + 1 <= Len(redact_call.redacted_text)
          /\ redact_call.redacted_text[p + 1] = "*"

C21_Witness ==
    /\ Returned
    /\ redact_call.preserve_format
    /\ Len(redact_call.findings) = 2
    /\ Overlap(redact_call.findings[1], redact_call.findings[2])
    /\ redact_call.findings[1].position[1] # redact_call.findings[2].position[1]
    /\ \A i \in 1..2 : Len(redact_call.findings[i].value) > 4

\* the offsets of the text inside the span of some finding
CoveredOffsets(fs) ==
    UNION {fs[i].position[1]..(fs[i].position[2] - 1) : i \in 1..Len(fs)}

\* C22: with preserve_format = true and at every step of redact_text, spans
\* overlapping or not, the text rewritten so far has the length of the
\* original, every character outside all the spans is unchanged, and no
\* offset is shifted: each offset holds its original character or '*'.
C22_LengthPreserved ==
    (redact_call.pc # "idle" /\ redact_call.preserve_format) =>
       /\ Len(redact_call.redacted_text) = Len(redact_call.text)
       /\ \A p \in 0..(Len(redact_call.text) - 1) :
             /\ p \notin CoveredOffsets(redact_call.findings) =>
                   redact_call.redacted_text[p + 1] = redact_call.text[p + 1]
             /\ redact_call.redacted_text[p + 1] \in {redact_call.text[p + 1], "*"}

C22_Witness ==
    /\ redact_call.pc = "loop"
    /\ redact_call.preserve_format
    /\ Len(redact_call.findings) = 2
    /\ redact_call.done = 1
    /\ Overlap(redact_call.findings[1], redact_call.findings[2])
    /\ Len(redact_call.findings_sorted[1].value) <= 4
    /\ CoveredOffsets(redact_call.findings) # 0..(Len(redact_call.text) - 1)
    /\ redact_call.redacted_text # redact_call.text

(* ================= claims: the wrapped function raises ================= *)
\* the call that made the i-th trace is still under way
HeldByCall(i) ==
    \E t \in Threads :
       /\ "trace_id" \in DOMAIN frame[t]
       /\ frame[t].trace_id = trace_log[i].trace_id

\* the i-th trace was left behind by a call that has ended without
\* completing it
Abandoned(i) == trace_log[i].status = "in_progress" /\ ~HeldByCall(i)

\* what an abandoned trace looks like, and what the statistics count
C23_State ==
    /\ \A i \in 1..Len(trace_log) :
          Abandoned(i) =>
             /\ EventTypes(trace_log[i])
                   = <<"AGENT_READ", "ARCHESTRA_INTERCEPT",
                       "PHANTOM_REDACT", "SAFE_DATA_DELIVERED">>
             /\ "end_time" \notin DOMAIN trace_log[i]
             /\ "duration" \notin DOMAIN trace_log[i]
             /\ \A j \in (i + 1)..Len(trace_log) :
                   SequenceNumber(trace_log[j].trace_id)
                      > SequenceNumber(trace_log[i].trace_id)
    /\ ret.op = "get_statistics" =>
          /\ ret.value.traces_completed
                = Cardinality({i \in 1..Len(trace_log) :
                                  ~Abandoned(i) /\ ~HeldByCall(i)})
          /\ ret.value.total_redactions
                = SeqSum([i \in 1..Len(trace_log) |->
                             IF Abandoned(i) \/ HeldByCall(i) THEN 0
                             ELSE TraceRedactions(trace_log[i])])

\* the step on which func raises, and every step after it
C23_Step ==
    /\ \A t \in Threads :
          (pc[t] = "wrap_func" /\ pc'[t] = "idle") =>
             /\ ret'.op = "wrapper"
             /\ ret'.raised
             /\ trace_log' = trace_log
             /\ \E i \in 1..Len(trace_log') :
                   /\ trace_log'[i].trace_id = frame[t].trace_id
                   /\ Abandoned(i)'
    /\ \A i \in 1..Len(trace_log) :
          Abandoned(i) =>
             /\ Len(trace_log') >= i
             /\ trace_log'[i] = trace_log[i]

\* C23: when the function wrapped by intercept raises, the exception reaches
\* the caller and the trace of the call stays in the history with status
\* in_progress, its four events and neither end_time nor duration; no later
\* step completes it, the statistics count it neither in traces_completed nor
\* in total_redactions, and the interceptions made after it get larger ids.
C23_RaiseLeavesTraceOpen == [](C23_State) /\ [][C23_Step]_vars

C23_Witness ==
    /\ ret.op = "get_statistics"
    /\ \E i, j \in 1..Len(trace_log) :
          /\ i < j
          /\ Abandoned(i)
          /\ MadeByWrapper(trace_log[j])
          /\ IsCompleted(trace_log[j])
    /\ ret.value.traces_completed < Len(trace_log)
    /\ ret.value.total_redactions > 0

====
